---- MODULE Spec2Model ----
(***************************************************************************)
(* Model of src/software.go: the software installation handler             *)
(* (installSoftwareHandler) and the package name sanitizer                 *)
(* (sanitizePackageName).                                                  *)
(*                                                                         *)
(* Go strings are TLA+ strings; Len, SubSeq, Tail and \o act on them       *)
(* character by character.  The three non-ASCII glyphs of the log text are *)
(* written as the bracketed words [package], [cross] and [check].          *)
(***************************************************************************)
EXTENDS Integers, Sequences, FiniteSets, TLC

VARIABLES pc, req, resp, customSoftware, installCommand, script, calls,
          output, err, logParts,
          sanPc, sanName, sanResult, sanOrder, permResult

vars == <<pc, req, resp, customSoftware, installCommand, script, calls,
          output, err, logParts,
          sanPc, sanName, sanResult, sanOrder, permResult>>

handlerVars == <<pc, req, resp, customSoftware, installCommand, script, calls,
                 output, err, logParts>>

sanVars == <<sanPc, sanName, sanResult, sanOrder, permResult>>

(***************************************************************************)
(* Bounds of the model.                                                    *)
(***************************************************************************)
\* longest raw package name that is enumerated exhaustively
MaxLen == 3

\* characters the exhaustive names are made of: a letter, two kinds of
\* whitespace (one of them also a disallowed token) and the characters of
\* the first four disallowed tokens
Alphabet == {"a", " ", "&", "|", ";", "\n"}

RECURSIVE StringsUpTo(_)
StringsUpTo(n) ==
  IF n = 0 THEN {""}
  ELSE LET S == StringsUpTo(n - 1) IN S \cup {s \o c : s \in S, c \in Alphabet}

\* longer names of interest, added to the exhaustive ones
ExampleNames ==
  {"foo; rm -rf /", "   ", "apk add", "htop", "a\tb", "$(id)", "a'b\"c <d>"}

RawNames == StringsUpTo(MaxLen) \cup ExampleNames

(***************************************************************************)
(* The Go library functions the code calls.                                *)
(***************************************************************************)
\* unicode.IsSpace on the characters that occur here
IsSpace(c) == c \in {" ", "\t", "\n", "\r", "\f"}

HasPrefix(s, p) == Len(s) >= Len(p) /\ SubSeq(s, 1, Len(p)) = p

\* strings.ReplaceAll with a non-empty old: the non-overlapping occurrences
\* of old are replaced from the left, and the replacement is not rescanned
RECURSIVE ReplaceAll(_, _, _)
ReplaceAll(s, old, new) ==
  IF Len(s) < Len(old) THEN s
  ELSE IF HasPrefix(s, old)
       THEN new \o ReplaceAll(SubSeq(s, Len(old) + 1, Len(s)), old, new)
       ELSE SubSeq(s, 1, 1) \o ReplaceAll(Tail(s), old, new)

RECURSIVE TrimLeft(_)
TrimLeft(s) ==
  IF s # "" /\ IsSpace(SubSeq(s, 1, 1)) THEN TrimLeft(Tail(s)) ELSE s

RECURSIVE TrimRight(_)
TrimRight(s) ==
  IF s # "" /\ IsSpace(SubSeq(s, Len(s), Len(s)))
  THEN TrimRight(SubSeq(s, 1, Len(s) - 1)) ELSE s

\* strings.TrimSpace
TrimSpace(s) == TrimRight(TrimLeft(s))

\* strings.Fields: the maximal runs of non-space characters, in order
RECURSIVE Fields(_)
Fields(s) ==
  LET t == TrimLeft(s) IN
  IF t = "" THEN <<>>
  ELSE LET stops == {i \in 1..Len(t) : IsSpace(SubSeq(t, i, i))}
           k == IF stops = {} THEN Len(t) + 1
                ELSE CHOOSE i \in stops : \A j \in stops : i <= j
       IN <<SubSeq(t, 1, k - 1)>> \o Fields(SubSeq(t, k, Len(t)))

(***************************************************************************)
(* sanitizePackageName                                                     *)
(***************************************************************************)
\* the backquote character, taken out of a two-character literal because a
\* backquote inside a TLA+ string has to be closed by a single quote
BacktickQuote == "`'"
Backtick == SubSeq(BacktickQuote, 1, 1)

disallowed ==
  <<";", "&&", "||", "|", ">", "<", "$", Backtick, "\"", "'", "(", ")",
    "{", "}", "[", "]", "\n", "\r">>

\* the loop over the token list: one ReplaceAll per token, in list order
RECURSIVE removeLoop(_, _, _)
removeLoop(result, tokens, i) ==
  IF i > Len(tokens) THEN result
  ELSE removeLoop(ReplaceAll(result, tokens[i], ""), tokens, i + 1)

\* the sanitizer without the split into fields
sanitizeInOrder_noFields(name, tokens) == removeLoop(name, tokens, 1)

\* the body of sanitizePackageName over a given token list
sanitizeInOrder(name, tokens) ==
  LET result == removeLoop(name, tokens, 1)
      parts == Fields(result)
  IN IF Len(parts) > 0 THEN parts[1] ELSE ""

sanitizePackageName(name) == sanitizeInOrder(name, disallowed)

(***************************************************************************)
(* The catalog and the server registry.                                    *)
(***************************************************************************)
commonSoftware ==
  << [Name |-> "nginx", Description |-> "Web server",
      Command |-> "apt install -y nginx"],
     [Name |-> "python3", Description |-> "Python programming language",
      Command |-> "apt install -y python3"],
     [Name |-> "nodejs", Description |-> "JavaScript runtime",
      Command |-> "apt install -y nodejs npm"],
     [Name |-> "git", Description |-> "Version control system",
      Command |-> "apt install -y git"],
     [Name |-> "docker", Description |-> "Container platform",
      Command |-> "apt install -y docker.io"],
     [Name |-> "postgresql", Description |-> "SQL database",
      Command |-> "apt install -y postgresql postgresql-contrib"],
     [Name |-> "mysql", Description |-> "MySQL database",
      Command |-> "apt install -y mysql-server mysql-client"],
     [Name |-> "vim", Description |-> "Text editor",
      Command |-> "apt install -y vim"],
     [Name |-> "curl",
      Description |-> "Command line tool for transferring data",
      Command |-> "apt install -y curl"],
     [Name |-> "wget",
      Description |-> "Command line tool for retrieving files",
      Command |-> "apt install -y wget"] >>

\* the lookup loop of the handler: the first entry with the name
findSoftware(softwareName) ==
  LET hits == {i \in 1..Len(commonSoftware) :
                 commonSoftware[i].Name = softwareName}
  IN IF hits = {} THEN [found |-> FALSE, Command |-> ""]
     ELSE [found |-> TRUE,
           Command |-> commonSoftware[CHOOSE i \in hits :
                                        \A j \in hits : i <= j].Command]

\* the server registry the handler reads: address -> privilege profile
ipMap ==
  [ip \in {"10.0.0.1", "10.0.0.2", "10.0.0.3"} |->
     CASE ip = "10.0.0.1" -> [RootUsername |-> "root", RootPassword |-> "toor"]
       [] ip = "10.0.0.2" -> [RootUsername |-> "ubuntu", RootPassword |-> "pw"]
       [] ip = "10.0.0.3" -> [RootUsername |-> "Root", RootPassword |-> ""]]

(***************************************************************************)
(* Requests.                                                               *)
(***************************************************************************)
Methods == {"POST", "GET"}
ServerIPs == {"", "10.9.9.9"} \cup DOMAIN ipMap
SoftwareTypes == {"common", "custom", ""}
CommonKeys == {commonSoftware[i].Name : i \in 1..Len(commonSoftware)}
                \cup {"", "emacs", "Nginx"}

\* a form carries a catalog key or a free-text name (an absent field reads
\* as ""); the software type is chosen independently of which one is there
Requests ==
  {[Method |-> m, parseOk |-> p, server_ip |-> ip, software_type |-> t,
    common_software |-> f[1], custom_software |-> f[2]] :
     m \in Methods, p \in BOOLEAN, ip \in ServerIPs, t \in SoftwareTypes,
     f \in ({<<k, "">> : k \in CommonKeys} \cup {<<"", n>> : n \in RawNames})}

NoRequest ==
  [Method |-> "", parseOk |-> TRUE, server_ip |-> "", software_type |-> "",
   common_software |-> "", custom_software |-> ""]

NoResponse == [status |-> "", body |-> ""]
NilErr == [failed |-> FALSE, msg |-> ""]

\* what the remote execution primitive can hand back
RemoteOutputs == {"", "Reading package lists...\n", "E: Unable to locate"}
RemoteErrs == {NilErr, [failed |-> TRUE, msg |-> "Process exited with status 100"],
               [failed |-> TRUE, msg |-> "dial tcp: i/o timeout"]}
ParseErrText == "invalid URL escape"

(***************************************************************************)
(* installSoftwareHandler                                                  *)
(***************************************************************************)
Accepted == [status |-> "", body |-> ""]

\* rejection without the test of the request method
rejection_anyMethod(r) ==
  IF ~r.parseOk
    THEN [status |-> "StatusBadRequest",
          body |-> "Error parsing form: " \o ParseErrText]
  ELSE IF r.server_ip = ""
    THEN [status |-> "StatusBadRequest", body |-> "Server IP is required"]
  ELSE IF r.server_ip \notin DOMAIN ipMap
    THEN [status |-> "StatusNotFound", body |-> "Server not found"]
  ELSE IF r.software_type = "common"
    THEN IF ~findSoftware(r.common_software).found
           THEN [status |-> "StatusBadRequest",
                 body |-> "Selected software not found"]
           ELSE Accepted
  ELSE IF r.software_type = "custom"
    THEN IF TrimSpace(r.custom_software) = ""
           THEN [status |-> "StatusBadRequest",
                 body |-> "Custom software name is required"]
           ELSE Accepted
  ELSE [status |-> "StatusBadRequest", body |-> "Invalid software type"]

\* the early returns of the handler, in the order the code tests them; the
\* result is the error response, or Accepted when none of them is taken
rejection(r) ==
  IF r.Method # "POST"
    THEN [status |-> "StatusMethodNotAllowed", body |-> "Method not allowed"]
  ELSE IF ~r.parseOk
    THEN [status |-> "StatusBadRequest",
          body |-> "Error parsing form: " \o ParseErrText]
  ELSE IF r.server_ip = ""
    THEN [status |-> "StatusBadRequest", body |-> "Server IP is required"]
  ELSE IF r.server_ip \notin DOMAIN ipMap
    THEN [status |-> "StatusNotFound", body |-> "Server not found"]
  ELSE IF r.software_type = "common"
    THEN IF ~findSoftware(r.common_software).found
           THEN [status |-> "StatusBadRequest",
                 body |-> "Selected software not found"]
           ELSE Accepted
  ELSE IF r.software_type = "custom"
    THEN IF TrimSpace(r.custom_software) = ""
           THEN [status |-> "StatusBadRequest",
                 body |-> "Custom software name is required"]
           ELSE Accepted
  ELSE [status |-> "StatusBadRequest", body |-> "Invalid software type"]

\* the custom branch: the name as trimmed and sanitized
sanitizedCustom(r) == sanitizePackageName(TrimSpace(r.custom_software))

\* installCommand as it stands before the script is built
baseInstallCommand(r) ==
  IF r.software_type = "common"
  THEN findSoftware(r.common_software).Command
  ELSE "apt install -y " \o sanitizedCustom(r)

\* the branch test made blind to the case of the user name
runsAsRoot_anyCase(server) == server.RootUsername \in {"root", "Root", "ROOT"}

\* the test that selects the branch without sudo
runsAsRoot(server) == server.RootUsername = "root"

\* the root branch without its rewriting
toApk_noRewrite(cmd) == cmd

\* the root branch rewriting "apt install" only, the flag left behind
toApk_keepFlag(cmd) == ReplaceAll(cmd, "apt install", "apk add")

\* the rewriting of installCommand in each branch
toApk(cmd) == ReplaceAll(cmd, "apt install -y", "apk add")
toApt(cmd) == ReplaceAll(cmd, "apk add", "apt install -y")

translatedCommand(server, cmd) ==
  IF runsAsRoot(server) THEN toApk(cmd) ELSE toApt(cmd)

\* script.String() once both branches are through
buildScript(server, cmd) ==
  IF runsAsRoot(server)
  THEN "apk update && " \o toApk(cmd)
  ELSE "echo '" \o server.RootPassword \o "' | sudo -S apt update && echo '"
         \o server.RootPassword \o "' | sudo -S " \o toApt(cmd)

FailedMarker == "[cross] Installation failed: "
SuccessMarker == "[check] Installation command executed successfully\n\n"

\* the marker line without the error detail
markerLine_noDetail(e) ==
  IF e.failed THEN FailedMarker \o "\n\n" ELSE SuccessMarker

\* the marker line of the log
markerLine(e) ==
  IF e.failed THEN FailedMarker \o e.msg \o "\n\n" ELSE SuccessMarker

\* the log showing the whole script
loggedCommand_script(cmd, scr) == scr

\* the command the log shows
loggedCommand(cmd, scr) == cmd

\* the writes to logBuilder, one element per WriteString
buildLog(serverIP, cmd, scr, e, out) ==
  << "[package] Software Installation Log\n\n",
     "Server: " \o serverIP \o "\n",
     "Command: " \o loggedCommand(cmd, scr) \o "\n\n",
     markerLine(e),
     "Output:\n" \o out >>

\* logBuilder.String()
RECURSIVE Flatten(_)
Flatten(parts) ==
  IF parts = <<>> THEN "" ELSE Head(parts) \o Flatten(Tail(parts))

\* a request reaches the handler
ReceiveRequest ==
  /\ pc = "idle"
  /\ \E r \in Requests : req' = r
  /\ pc' = "handling"
  /\ UNCHANGED <<resp, customSoftware, installCommand, script, calls,
                 output, err, logParts>>
  /\ UNCHANGED sanVars

\* the handler leaves through one of its http.Error returns
Reject ==
  /\ pc = "handling"
  /\ rejection(req) # Accepted
  /\ resp' = rejection(req)
  /\ pc' = "rejected"
  /\ UNCHANGED <<req, customSoftware, installCommand, script, calls,
                 output, err, logParts>>
  /\ UNCHANGED sanVars

\* the handler passes every check and builds the installation script
Compose ==
  /\ pc = "handling"
  /\ rejection(req) = Accepted
  /\ customSoftware' =
       IF req.software_type = "custom" THEN sanitizedCustom(req) ELSE ""
  /\ installCommand' =
       translatedCommand(ipMap[req.server_ip], baseInstallCommand(req))
  /\ script' = buildScript(ipMap[req.server_ip], baseInstallCommand(req))
  /\ pc' = "composed"
  /\ UNCHANGED <<req, resp, calls, output, err, logParts>>
  /\ UNCHANGED sanVars

\* the call of the remote execution primitive and what it returns
runRemoteCommand ==
  /\ pc = "composed"
  /\ calls' = Append(calls,
                [address |-> req.server_ip,
                 user |-> ipMap[req.server_ip].RootUsername,
                 secret |-> ipMap[req.server_ip].RootPassword,
                 commandText |-> script])
  /\ \E out \in RemoteOutputs, e \in RemoteErrs : output' = out /\ err' = e
  /\ pc' = "ran"
  /\ UNCHANGED <<req, resp, customSoftware, installCommand, script, logParts>>
  /\ UNCHANGED sanVars

\* the log is built and rendered
RenderLog ==
  /\ pc = "ran"
  /\ logParts' = buildLog(req.server_ip, installCommand, script, err, output)
  /\ resp' = [status |-> "StatusOK",
              body |-> Flatten(buildLog(req.server_ip, installCommand, script,
                                        err, output))]
  /\ pc' = "executed"
  /\ UNCHANGED <<req, customSoftware, installCommand, script, calls,
                 output, err>>
  /\ UNCHANGED sanVars

HandlerIdle ==
  /\ pc = "idle"
  /\ req = NoRequest
  /\ resp = NoResponse
  /\ customSoftware = ""
  /\ installCommand = ""
  /\ script = ""
  /\ calls = <<>>
  /\ output = ""
  /\ err = NilErr
  /\ logParts = <<>>

SanIdle ==
  /\ sanPc = "idle"
  /\ sanName = ""
  /\ sanResult = ""
  /\ sanOrder = disallowed
  /\ permResult = ""

Init == HandlerIdle /\ SanIdle

Next == ReceiveRequest \/ Reject \/ Compose \/ runRemoteCommand \/ RenderLog

Spec == Init /\ [][Next]_vars

(***************************************************************************)
(* sanitizePackageName called on its own, on every name of RawNames.       *)
(***************************************************************************)
InitSan ==
  /\ HandlerIdle
  /\ sanPc = "called"
  /\ sanName \in RawNames
  /\ sanResult = ""
  /\ sanOrder = disallowed
  /\ permResult = ""

CallSanitize ==
  /\ sanPc = "called"
  /\ sanResult' = sanitizePackageName(sanName)
  /\ sanPc' = "returned"
  /\ UNCHANGED <<sanName, sanOrder, permResult>>
  /\ UNCHANGED handlerVars

NextSan == CallSanitize

SpecSan == InitSan /\ [][NextSan]_vars

(***************************************************************************)
(* The same function with two tokens of the list exchanged, next to the    *)
(* function as written.                                                    *)
(***************************************************************************)
Swap(tokens, i, j) ==
  [k \in 1..Len(tokens) |->
     IF k = i THEN tokens[j] ELSE IF k = j THEN tokens[i] ELSE tokens[k]]

Orders ==
  {Swap(disallowed, i, j) : i \in 1..Len(disallowed), j \in 1..Len(disallowed)}

InitOrder ==
  /\ HandlerIdle
  /\ sanPc = "called"
  /\ sanName \in RawNames
  /\ sanResult = ""
  /\ sanOrder \in Orders
  /\ permResult = ""

CallBothOrders ==
  /\ sanPc = "called"
  /\ sanResult' = sanitizePackageName(sanName)
  /\ permResult' = sanitizeInOrder(sanName, sanOrder)
  /\ sanPc' = "returned"
  /\ UNCHANGED <<sanName, sanOrder>>
  /\ UNCHANGED handlerVars

NextOrder == CallBothOrders

SpecOrder == InitOrder /\ [][NextOrder]_vars

(***************************************************************************)
(* Properties.                                                             *)
(***************************************************************************)
\* p ends s
HasSuffix(s, p) ==
  Len(s) >= Len(p) /\ SubSeq(s, Len(s) - Len(p) + 1, Len(s)) = p

\* sub occurs in s
Contains(s, sub) ==
  \E i \in 1..(Len(s) - Len(sub) + 1) : SubSeq(s, i, i + Len(sub) - 1) = sub

\* the remote call has been made for the current request
Called == pc \in {"ran", "executed"}

\* the handler got past its checks
Passed == pc \in {"composed", "ran", "executed"}

\* the handler has finished with the request
Finished == pc \in {"rejected", "executed"}

ErrorStatuses == {"StatusMethodNotAllowed", "StatusBadRequest", "StatusNotFound"}

CatalogNames == {commonSoftware[i].Name : i \in 1..Len(commonSoftware)}

NoSpaceIn(s) == \A i \in 1..Len(s) : ~IsSpace(SubSeq(s, i, i))

\* C1: once sanitizePackageName has returned, its result contains no token
\* of the disallowed list, whatever the raw name was.
C1_OutputHasNoDisallowedToken ==
  sanPc = "returned" =>
    \A i \in 1..Len(disallowed) : ~Contains(sanResult, disallowed[i])

\* C2: a custom request that gets as far as the custom branch and whose name
\* is empty after sanitization is never composed or run; it ends rejected
\* with a bad-request error.
C2_EmptySanitizedNameRejected ==
  ( /\ pc \in {"composed", "ran", "executed", "rejected"}
    /\ req.Method = "POST" /\ req.parseOk
    /\ req.server_ip \in DOMAIN ipMap
    /\ req.software_type = "custom"
    /\ sanitizePackageName(req.custom_software) = "" )
  => /\ pc = "rejected"
     /\ resp.status = "StatusBadRequest"
     /\ calls = <<>>

\* the cases in which C3 says the remote call is not made
C3_ListedRejection(r) ==
  \/ r.Method # "POST"
  \/ r.server_ip = ""
  \/ r.server_ip \notin DOMAIN ipMap
  \/ r.software_type \notin {"common", "custom"}
  \/ r.software_type = "common" /\ r.common_software \notin CatalogNames
  \/ r.software_type = "custom" /\ r.custom_software = ""

\* the cases in which the code does not make it
C3_ActualRejection(r) ==
  \/ r.Method # "POST"
  \/ ~r.parseOk
  \/ r.server_ip = ""
  \/ r.server_ip \notin DOMAIN ipMap
  \/ r.software_type \notin {"common", "custom"}
  \/ r.software_type = "common" /\ r.common_software \notin CatalogNames
  \/ r.software_type = "custom"
       /\ \A i \in 1..Len(r.custom_software) :
            IsSpace(SubSeq(r.custom_software, i, i))

C3_Outcome(rejected) ==
  /\ Len(calls) <= 1
  /\ pc # "idle" /\ rejected =>
       /\ calls = <<>>
       /\ logParts = <<>>
       /\ pc \in {"handling", "rejected"}
  /\ Finished =>
       IF rejected
       THEN /\ pc = "rejected"
            /\ resp.status \in ErrorStatuses
            /\ calls = <<>>
            /\ logParts = <<>>
       ELSE /\ pc = "executed"
            /\ Len(calls) = 1
            /\ logParts # <<>>
            /\ resp = [status |-> "StatusOK", body |-> Flatten(logParts)]

\* C3 as stated: the remote call is made at most once; it is not made, the
\* response is an error and no log is rendered when the request is not a
\* POST, the address is empty or unknown, the mode is unknown, the catalog
\* key is unknown or the custom name is empty; otherwise it is made exactly
\* once and one log is rendered.
C3_CallCountAsStated == C3_Outcome(C3_ListedRejection(req))

\* C3 as amended: the same, with the rejections the list leaves out: a form
\* that cannot be parsed, and a custom name that is empty once the
\* surrounding whitespace is trimmed.
C3_CallCount == C3_Outcome(C3_ActualRejection(req))

C3_Witness ==
  /\ pc = "rejected"
  /\ req.Method = "POST" /\ req.parseOk
  /\ req.server_ip \in DOMAIN ipMap
  /\ req.software_type = "custom"
  /\ req.custom_software = " \n"
  /\ resp.status = "StatusBadRequest"
  /\ calls = <<>>

\* the apk form of each catalog entry
C4_ApkCommand ==
  [n \in CatalogNames |->
     CASE n = "nginx" -> "apk add nginx"
       [] n = "python3" -> "apk add python3"
       [] n = "nodejs" -> "apk add nodejs npm"
       [] n = "git" -> "apk add git"
       [] n = "docker" -> "apk add docker.io"
       [] n = "postgresql" -> "apk add postgresql postgresql-contrib"
       [] n = "mysql" -> "apk add mysql-server mysql-client"
       [] n = "vim" -> "apk add vim"
       [] n = "curl" -> "apk add curl"
       [] n = "wget" -> "apk add wget"]

\* C4: on a server whose privilege user is "root", the command passed to
\* runRemoteCommand for a catalog entry is "apk update && " followed by the
\* entry's verb in apk form, with no sudo, no apt and no secret wrapper.
C4_RootCatalogCommand ==
  ( /\ Called
    /\ req.software_type = "common"
    /\ ipMap[req.server_ip].RootUsername = "root" )
  => LET text == calls[1].commandText IN
     /\ text = "apk update && " \o C4_ApkCommand[req.common_software]
     /\ req.common_software = "nginx" => text = "apk update && apk add nginx"
     /\ ~Contains(text, "sudo")
     /\ ~Contains(text, "apt")
     /\ ~Contains(text, "echo '" \o ipMap[req.server_ip].RootPassword \o "'")

C4_Witness ==
  /\ pc = "ran"
  /\ req.software_type = "common"
  /\ req.common_software = "nodejs"
  /\ ipMap[req.server_ip].RootUsername = "root"
  /\ calls[1].commandText = "apk update && apk add nodejs npm"

\* C5: on a server whose privilege user is not exactly "root", with secret
\* S and base install command C, the command passed to runRemoteCommand is
\* "echo 'S' | sudo -S apt update && echo 'S' | sudo -S C", C in apt form.
C5_SudoCommand ==
  ( Called /\ ipMap[req.server_ip].RootUsername # "root" )
  => LET text == calls[1].commandText
         S == ipMap[req.server_ip].RootPassword
         C == IF req.software_type = "common"
              THEN findSoftware(req.common_software).Command
              ELSE "apt install -y " \o customSoftware
     IN /\ text = "echo '" \o S \o "' | sudo -S apt update && echo '" \o S
                    \o "' | sudo -S " \o C
        /\ HasPrefix(C, "apt install -y ")
        /\ ~Contains(text, "apk add")
        /\ ( S = "pw" /\ req.software_type = "common"
               /\ req.common_software = "git" )
           => text = "echo 'pw' | sudo -S apt update && echo 'pw' | sudo -S apt install -y git"

C5_Witness ==
  /\ pc = "ran"
  /\ ipMap[req.server_ip].RootPassword = "pw"
  /\ req.software_type = "common"
  /\ req.common_software = "git"
  /\ calls[1].commandText =
       "echo 'pw' | sudo -S apt update && echo 'pw' | sudo -S apt install -y git"

\* C6 as stated: the command line of the rendered log shows the very string
\* that was passed to runRemoteCommand.
C6_LogShowsComposedCommand ==
  pc = "executed" =>
    logParts[3] = "Command: " \o calls[1].commandText \o "\n\n"

\* C6 as amended: the command line of the rendered log shows the install
\* command alone, in the package manager form of the target; it is the last
\* segment of the string passed to runRemoteCommand, which carries the
\* update step (and, off root, the sudo wrapper) in front of it.
C6_LogShowsInstallCommand ==
  pc = "executed" =>
    /\ logParts[3] = "Command: " \o installCommand \o "\n\n"
    /\ LET S == ipMap[req.server_ip].RootPassword IN
       IF ipMap[req.server_ip].RootUsername = "root"
       THEN /\ calls[1].commandText = "apk update && " \o installCommand
            /\ HasPrefix(installCommand, "apk add")
       ELSE /\ calls[1].commandText =
                 "echo '" \o S \o "' | sudo -S apt update && echo '" \o S
                   \o "' | sudo -S " \o installCommand
            /\ HasPrefix(installCommand, "apt install -y")

C6_Witness ==
  /\ pc = "executed"
  /\ ipMap[req.server_ip].RootUsername = "ubuntu"
  /\ req.software_type = "custom"
  /\ logParts[3] = "Command: apt install -y htop\n\n"
  /\ calls[1].commandText # "apt install -y htop"

\* C7: a failing remote call neither aborts nor repeats the request: the
\* call stays the only one, the response is the rendered log, the log has
\* the failure marker with the error detail when the call failed and the
\* success marker when it did not, exactly one marker line in all, and the
\* raw remote output comes last.
C7_FailureIsReported ==
  /\ calls # <<>> =>
       /\ Len(calls) = 1
       /\ pc \in {"ran", "executed"}
       /\ resp.status \notin ErrorStatuses
  /\ pc = "executed" =>
       /\ resp = [status |-> "StatusOK", body |-> Flatten(logParts)]
       /\ Len(logParts) = 5
       /\ logParts[4] =
            IF err.failed
            THEN "[cross] Installation failed: " \o err.msg \o "\n\n"
            ELSE "[check] Installation command executed successfully\n\n"
       /\ Cardinality({i \in 1..Len(logParts) :
                         \/ HasPrefix(logParts[i], "[cross] Installation failed: ")
                         \/ HasPrefix(logParts[i], "[check] Installation command executed successfully")}) = 1
       /\ logParts[5] = "Output:\n" \o output
       /\ HasSuffix(resp.body, "\n\nOutput:\n" \o output)

C7_Witness ==
  /\ pc = "executed"
  /\ err.failed
  /\ output = "E: Unable to locate"
  /\ HasPrefix(logParts[4], "[cross] Installation failed: dial tcp")
  /\ Len(calls) = 1

\* C8: no token of the disallowed list occurs inside another one, and
\* removing the tokens in another order gives the result of the order the
\* code uses.
C8_OrderIndependent ==
  sanPc = "returned" =>
    /\ \A i, j \in 1..Len(disallowed) :
         i # j => ~Contains(disallowed[i], disallowed[j])
    /\ permResult = sanResult

\* C9: for a catalog verb, the apk form the root branch makes of it goes
\* back to the verb under the rewriting of the other branch; and off root
\* the rewriting leaves the catalog verb, or "apt install -y " plus the
\* sanitized token, as it was.
C9_RoundTrip ==
  Passed =>
    IF ipMap[req.server_ip].RootUsername = "root"
    THEN req.software_type = "common" =>
           /\ installCommand # findSoftware(req.common_software).Command
           /\ ReplaceAll(installCommand, "apk add", "apt install -y")
                = findSoftware(req.common_software).Command
    ELSE installCommand =
           IF req.software_type = "common"
           THEN findSoftware(req.common_software).Command
           ELSE "apt install -y " \o customSoftware

C9_Witness ==
  /\ pc = "composed"
  /\ ipMap[req.server_ip].RootUsername = "root"
  /\ req.common_software = "postgresql"
  /\ req.software_type = "common"
  /\ installCommand = "apk add postgresql postgresql-contrib"

\* tok is the first whitespace-delimited segment of s, or "" if s has none
C10_IsFirstSegment(s, tok) ==
  IF \A i \in 1..Len(s) : IsSpace(SubSeq(s, i, i))
  THEN tok = ""
  ELSE \E i \in 1..Len(s) : \E j \in i..Len(s) :
         /\ \A k \in 1..(i - 1) : IsSpace(SubSeq(s, k, k))
         /\ \A k \in i..j : ~IsSpace(SubSeq(s, k, k))
         /\ j = Len(s) \/ IsSpace(SubSeq(s, j + 1, j + 1))
         /\ tok = SubSeq(s, i, j)

\* C10: sanitizePackageName returns "" or one token without whitespace, the
\* first whitespace-delimited segment of the name with the disallowed
\* tokens removed ("foo; rm -rf /" gives "foo", "   " gives ""), so that
\* "apt install -y " plus the result has at most one argument.
C10_SingleToken ==
  sanPc = "returned" =>
    /\ NoSpaceIn(sanResult)
    /\ C10_IsFirstSegment(removeLoop(sanName, disallowed, 1), sanResult)
    /\ sanName = "foo; rm -rf /" => sanResult = "foo"
    /\ sanName = "   " => sanResult = ""
    /\ Len(Fields("apt install -y " \o sanResult)) \in {3, 4}

C10_Witness ==
  /\ sanPc = "returned"
  /\ sanName = "foo; rm -rf /"
  /\ sanResult = "foo"

====
